---- MODULE Spec2Model ----
(***************************************************************************)
(* Model of scripts/generate_all.py (QQWryParser): the range merger, the   *)
(* range-to-CIDR summarization, the location record resolver and the index *)
(* scan.  Each component has its own specification over the shared         *)
(* variables; the variables a specification does not use stay at their     *)
(* idle values.                                                            *)
(***************************************************************************)
EXTENDS Integers, Sequences, FiniteSets, TLC

VARIABLES
    pc,           \* control position of the component being run
    ranges_in,    \* _merge_ranges: the argument list as passed by the caller
    raw_ranges,   \* _merge_ranges: the argument list (sorted in place)
    merged,       \* _merge_ranges: the returned list
    s_addr,       \* run: s of the merged interval being summarized
    e_addr,       \* run: e of the merged interval being summarized
    first_int,    \* summarize_address_range: first_int
    last_int,     \* summarize_address_range: last_int
    nets,         \* the networks written so far, as <<base, prefixlen>>
    data,         \* resolver: self.data, the database image
    start_offset, \* resolver: the offset _get_addr was first called with
    offset,       \* resolver: the argument of the call being executed
    depth,        \* resolver: number of frames of the resolver on the stack
    country,      \* resolver: country of the frame that resolves the area
    area_start,   \* resolver: offset the area resolution began at, or -1
    zero_read,    \* resolver: a zero area pointer has been read
    overflow,     \* resolver: RecursionError has been raised
    location_str, \* resolver: the string _get_addr returned
    data_len,     \* scan: len(self.data)
    first_index,  \* scan: the u32 stored at bytes 0..3
    last_index,   \* scan: the u32 stored at bytes 4..7
    count,        \* scan: self.count
    i,            \* scan: loop variable of the index scan
    visited,      \* scan: indices whose loop body has been entered
    stored,       \* scan: indices whose range was appended to results
    output,       \* scan: OUTPUT_FILE has been opened for writing
    raised        \* scan: where an exception left the program, or "none"

mergeVars == <<ranges_in, raw_ranges, merged>>
sumVars   == <<s_addr, e_addr, first_int, last_int, nets>>
resVars   == <<data, start_offset, offset, depth, country, area_start,
               zero_read, overflow, location_str>>
scanVars  == <<data_len, first_index, last_index, count, i, visited, stored,
               output, raised>>
vars      == <<pc, mergeVars, sumVars, resVars, scanVars>>

\* ---------------------------------------------------------------- bounds
MaxAddr   == 3      \* merger inputs use the addresses 0..MaxAddr
MaxRanges == 3      \* merger inputs have at most MaxRanges ranges
ip_bits   == 4      \* address width (32 for IPv4), scaled down
BufLen    == 6      \* resolver: length of the database image
ShortLen  == 5      \* resolver: length of the image for the termination property
RecursionLimit == 10 \* resolver: frames the interpreter allows (1000 by
                     \* default), scaled down
MaxDataLen == 22    \* scan: largest image length and header offset

\* --------------------------------------------------------------- helpers
Max(a, b) == IF a >= b THEN a ELSE b
Min(a, b) == IF a <= b THEN a ELSE b

RECURSIVE Pow2(_)
Pow2(k) == IF k = 0 THEN 1 ELSE 2 * Pow2(k - 1)

\* ======================================================= _merge_ranges

\* list.sort(key=lambda x: x[0]) is a stable sort on the start address:
\* an element goes after every element whose start is <= its own.
RECURSIVE InsertByStart(_, _)
InsertByStart(x, s) ==
    IF s = <<>> THEN <<x>>
    ELSE IF x[1] < Head(s)[1] THEN <<x>> \o s
    ELSE <<Head(s)>> \o InsertByStart(x, Tail(s))

RECURSIVE SortByStart(_)
SortByStart(s) ==
    IF s = <<>> THEN <<>>
    ELSE InsertByStart(s[Len(s)], SortByStart(SubSeq(s, 1, Len(s) - 1)))

\* variants of the join test: overlap only, and across a one-address gap
JoinsOverlapOnly(next_s, curr_e) == next_s <= curr_e
JoinsAcrossGap(next_s, curr_e) == next_s <= curr_e + 2

\* line 126: if next_s <= curr_e + 1
Joins(next_s, curr_e) == next_s <= curr_e + 1

\* variant of the extension: the end of the last range joined
ExtendLast(curr_e, next_e) == next_e

\* line 127: curr_e = max(curr_e, next_e)
Extend(curr_e, next_e) == Max(curr_e, next_e)

\* lines 124-131: the fold over raw_ranges[1:] and the final append
RECURSIVE MergeFold(_, _, _, _)
MergeFold(rest, curr_s, curr_e, acc) ==
    IF rest = <<>> THEN Append(acc, <<curr_s, curr_e>>)
    ELSE LET next_s == Head(rest)[1]
             next_e == Head(rest)[2]
         IN  IF Joins(next_s, curr_e)
             THEN MergeFold(Tail(rest), curr_s, Extend(curr_e, next_e), acc)
             ELSE MergeFold(Tail(rest), next_s, next_e,
                            Append(acc, <<curr_s, curr_e>>))

\* lines 117-132
_merge_ranges(raw) ==
    IF raw = <<>> THEN <<>>
    ELSE LET sorted == SortByStart(raw)
         IN  MergeFold(Tail(sorted), sorted[1][1], sorted[1][2], <<>>)

Addrs == 0..MaxAddr
Pairs == Addrs \X Addrs
RangeLists == UNION {[1..n -> Pairs] : n \in 0..MaxRanges}

IdleSum == /\ s_addr = 0 /\ e_addr = 0 /\ first_int = 0 /\ last_int = 0
           /\ nets = <<>>
IdleMerge == /\ ranges_in = <<>> /\ raw_ranges = <<>> /\ merged = <<>>
IdleRes == /\ data = <<>> /\ start_offset = 0 /\ offset = 0 /\ depth = 0
           /\ country = <<>> /\ area_start = -1 /\ zero_read = FALSE
           /\ overflow = FALSE /\ location_str = <<>>
IdleScan == /\ data_len = 0 /\ first_index = 0 /\ last_index = 0
            /\ count = 0 /\ i = 0 /\ visited = {} /\ stored = {}
            /\ output = FALSE /\ raised = "none"

InitMerge ==
    /\ pc = "merge"
    /\ ranges_in \in RangeLists
    /\ raw_ranges = ranges_in
    /\ merged = <<>>
    /\ IdleSum /\ IdleRes /\ IdleScan

\* merged = self._merge_ranges(ranges): sorts the argument in place and
\* returns the merged list
MergeRanges ==
    /\ pc = "merge"
    /\ raw_ranges' = SortByStart(raw_ranges)
    /\ merged' = _merge_ranges(raw_ranges)
    /\ pc' = "merged"
    /\ UNCHANGED <<ranges_in, sumVars, resVars, scanVars>>

NextMerge == MergeRanges
SpecMerge == InitMerge /\ [][NextMerge]_vars


\* ---------------------------------------------------- merger properties
ValidRange(r) == r[1] <= r[2]
ValidRanges(rs) == \A k \in 1..Len(rs) : ValidRange(rs[k])

Cover(rs) == UNION {rs[k][1]..rs[k][2] : k \in 1..Len(rs)}

\* the maximal runs of consecutive addresses of a set of addresses
MaximalRuns(S) ==
    {r \in (S \X S) : /\ r[1] <= r[2]
                      /\ \A a \in r[1]..r[2] : a \in S
                      /\ (r[1] - 1) \notin S
                      /\ (r[2] + 1) \notin S}

PermutationsOf(rs) ==
    {[k \in 1..Len(rs) |-> rs[f[k]]] : f \in Permutations(1..Len(rs))}

\* C3: for every input list of ranges with start <= end, the output of
\* merge is sorted strictly ascending by start and every two consecutive
\* output intervals (a, b), (c, d) satisfy c > b + 1 (no overlap, no
\* adjacency); the empty input yields the empty output.
MergeSortedSeparated ==
    (pc = "merged" /\ ValidRanges(ranges_in)) =>
        /\ \A k \in 1..(Len(merged) - 1) :
              /\ merged[k][1] < merged[k + 1][1]
              /\ merged[k + 1][1] > merged[k][2] + 1
        /\ (ranges_in = <<>> => merged = <<>>)

\* three valid ranges given out of order, two adjacent ones joined and one
\* kept apart
MergeSortedSeparatedWitness ==
    /\ pc = "merged"
    /\ ValidRanges(ranges_in)
    /\ Len(ranges_in) = 3
    /\ ranges_in[1][1] > ranges_in[3][1]
    /\ Len(merged) = 2
    /\ merged[1][2] + 2 = merged[2][1]

MergePreservesCoverage ==
    (pc = "merged" /\ ValidRanges(ranges_in)) =>
        /\ Cover(merged) = Cover(ranges_in)
        /\ {merged[k] : k \in 1..Len(merged)} = MaximalRuns(Cover(ranges_in))
        /\ Len(merged) = Cardinality(MaximalRuns(Cover(ranges_in)))

\* (0,0),(1,1) are adjacent and join; (3,3) is one address away and stays
MergePreservesCoverageWitness ==
    /\ pc = "merged"
    /\ ranges_in = <<<<3, 3>>, <<0, 0>>, <<1, 1>>>>
    /\ merged = <<<<0, 1>>, <<3, 3>>>>

\* ============================================ summarize_address_range

ALL_ONES == Pow2(ip_bits) - 1

RECURSIVE bit_length(_)
bit_length(n) == IF n = 0 THEN 0 ELSE 1 + bit_length(n \div 2)

Bit(n, k) == (n \div Pow2(k)) % 2

\* ~number & (number - 1) for number > 0: bit k is set where number has a
\* 0 and number - 1 has a 1
RECURSIVE NotAnd(_, _, _)
NotAnd(number, pred, k) ==
    IF k < 0 THEN 0
    ELSE (1 - Bit(number, k)) * Bit(pred, k) * Pow2(k)
         + NotAnd(number, pred, k - 1)

\* variant that ignores the alignment of the address
CountIgnoresAlignment(number, bits) == bits

\* ipaddress._count_righthand_zero_bits(number, bits)
_count_righthand_zero_bits(number, bits) ==
    IF number = 0 THEN bits
    ELSE Min(bits, bit_length(NotAnd(number, number - 1, bit_length(number))))

\* variant that never grows a block beyond one address
RemainingBitsHost(first, last) == 0

\* (last_int - first_int + 1).bit_length() - 1
RemainingBits(first, last) == bit_length(last - first + 1) - 1

\* nbits = min(_count_righthand_zero_bits(first_int, ip_bits), ...)
nbits(first, last) ==
    Min(_count_righthand_zero_bits(first, ip_bits), RemainingBits(first, last))

InitSummarize ==
    /\ pc = "range"
    /\ s_addr \in 0..ALL_ONES
    /\ e_addr \in 0..ALL_ONES
    /\ first_int = 0
    /\ last_int = 0
    /\ nets = <<>>
    /\ IdleMerge /\ IdleRes /\ IdleScan

\* lines 213-217: the call of summarize_address_range(s_addr, e_addr); it
\* raises ValueError when first > last, and run's except skips the range
SummarizeCall ==
    /\ pc = "range"
    /\ IF s_addr > e_addr
       THEN /\ pc' = "skipped"
            /\ UNCHANGED <<first_int, last_int>>
       ELSE /\ pc' = "loop"
            /\ first_int' = s_addr
            /\ last_int' = e_addr
    /\ UNCHANGED <<s_addr, e_addr, nets, mergeVars, resVars, scanVars>>

\* one iteration of `while first_int <= last_int`: the network is yielded
\* and written (line 218), first_int advances, and the loop breaks when
\* the end of the address space is reached
SummarizeStep ==
    /\ pc = "loop"
    /\ first_int <= last_int
    /\ LET n == nbits(first_int, last_int)
       IN  /\ nets' = Append(nets, <<first_int, ip_bits - n>>)
           /\ first_int' = first_int + Pow2(n)
           /\ pc' = IF first_int + Pow2(n) - 1 = ALL_ONES THEN "done" ELSE "loop"
    /\ UNCHANGED <<s_addr, e_addr, last_int, mergeVars, resVars, scanVars>>

\* the while condition fails: the generator is exhausted
SummarizeExit ==
    /\ pc = "loop"
    /\ first_int > last_int
    /\ pc' = "done"
    /\ UNCHANGED <<sumVars, mergeVars, resVars, scanVars>>

NextSummarize == SummarizeCall \/ SummarizeStep \/ SummarizeExit
SpecSummarize == InitSummarize /\ [][NextSummarize]_vars

\* ------------------------------------------------ summarizer properties
BlockSize(net) == Pow2(ip_bits - net[2])
Block(net) == net[1]..(net[1] + BlockSize(net) - 1)

\* the least number of aligned power-of-two blocks whose disjoint union is
\* first..last, by exhaustive search: the block that holds `first` must
\* start at `first`
RECURSIVE MinBlocks(_, _)
MinBlocks(first, last) ==
    IF first > last THEN 0
    ELSE LET sizes == {k \in 0..ip_bits : /\ first % Pow2(k) = 0
                                          /\ first + Pow2(k) - 1 <= last}
             counts == {1 + MinBlocks(first + Pow2(k), last) : k \in sizes}
         IN  CHOOSE c \in counts : \A d \in counts : c <= d

\* C1: for every range with 0 <= start <= end <= 2^ip_bits - 1 the blocks
\* emitted are in ascending address order, pairwise disjoint, each base a
\* multiple of its block size, none reaching outside [start, end], and
\* their union is exactly [start, end].
SummarizeExactCover ==
    (pc = "done" /\ s_addr <= e_addr) =>
        /\ \A k \in 1..Len(nets) :
              /\ nets[k][2] \in 0..ip_bits
              /\ nets[k][1] % BlockSize(nets[k]) = 0
              /\ Block(nets[k]) \subseteq s_addr..e_addr
        /\ \A k \in 1..(Len(nets) - 1) : nets[k][1] < nets[k + 1][1]
        /\ \A j, k \in 1..Len(nets) :
              j # k => Block(nets[j]) \cap Block(nets[k]) = {}
        /\ UNION {Block(nets[k]) : k \in 1..Len(nets)} = s_addr..e_addr

\* an unaligned range that needs blocks of three different sizes
SummarizeExactCoverWitness ==
    /\ pc = "done"
    /\ s_addr = 1
    /\ e_addr = 7
    /\ nets = <<<<1, ip_bits>>, <<2, ip_bits - 1>>, <<4, ip_bits - 2>>>>

\* C2: the number of blocks emitted equals the minimum number of aligned
\* power-of-two blocks whose disjoint union is [start, end]; start = end
\* yields exactly one full-length-prefix block, and the whole address
\* space yields exactly one /0 block, after which the loop has ended.
SummarizeMinimal ==
    (pc = "done" /\ s_addr <= e_addr) =>
        /\ Len(nets) = MinBlocks(s_addr, e_addr)
        /\ (s_addr = e_addr => nets = <<<<s_addr, ip_bits>>>>)
        /\ (s_addr = 0 /\ e_addr = ALL_ONES => nets = <<<<0, 0>>>>)

\* the whole address space has been summarized
SummarizeMinimalWitness ==
    /\ pc = "done"
    /\ s_addr = 0
    /\ e_addr = ALL_ONES
    /\ Len(nets) = 1


\* ===================================================== record resolver

\* byte values of the images: the terminator, the two redirect tags, an
\* ASCII letter and 0xB1, which is a GBK lead byte
Bytes == {0, 1, 2, 65, 177}

SP   == 32        \* the space of f"{country} {area}"
REPL == 65533     \* U+FFFD, what errors='replace' puts for undecodable bytes

Byte(o) == data[o + 1]

\* self.data[a:b] with 0 <= a
Slice(a, b) == IF a >= b THEN <<>> ELSE SubSeq(data, a + 1, b)

\* line 70: struct.unpack needs the three bytes to be there
Long3Readable(o) == o + 3 <= Len(data)

\* line 70: _get_long3
_get_long3(o) == Byte(o) + 256 * Byte(o + 1) + 65536 * Byte(o + 2)

\* line 76: self.data.find(b'\x00', offset), -1 when there is none
Find0(o) ==
    LET zeros == {k \in o..(Len(data) - 1) : Byte(k) = 0}
    IN  IF zeros = {} THEN -1
        ELSE CHOOSE k \in zeros : \A j \in zeros : k <= j

\* line 78: self.data[offset:end]; end = -1 drops the last byte
StringBytes(o) ==
    LET end == Find0(o)
    IN  IF end = -1 THEN Slice(o, Len(data) - 1) ELSE Slice(o, end)

\* GBK: a lead byte 0x81..0xFE followed by a trail byte 0x40..0x7E or
\* 0x80..0xFE is one character (the unassigned cells of the table are not
\* modelled; the row of 0xB1 has none)
IsLead(b) == b \in 129..254
IsTrail(b) == b \in 64..126 \/ b \in 128..254

\* bytes.decode('gbk', errors='replace'): an undecodable byte becomes
\* U+FFFD and decoding resumes at the next byte.  A two-byte character is
\* represented by 256 * lead + trail.
RECURSIVE GbkDecode(_)
GbkDecode(bs) ==
    IF bs = <<>> THEN <<>>
    ELSE IF Head(bs) < 128 THEN <<Head(bs)>> \o GbkDecode(Tail(bs))
    ELSE IF IsLead(Head(bs)) /\ Len(bs) >= 2 /\ IsTrail(bs[2])
         THEN <<256 * Head(bs) + bs[2]>> \o GbkDecode(SubSeq(bs, 3, Len(bs)))
    ELSE <<REPL>> \o GbkDecode(Tail(bs))

\* lines 75-80: _get_string
_get_string(o) == GbkDecode(StringBytes(o))

\* str.encode('gbk') raises UnicodeEncodeError on U+FFFD
Encodable(str) == \A k \in 1..Len(str) : str[k] # REPL

\* len(str.encode('gbk')) of an encodable string
RECURSIVE EncodedLen(_)
EncodedLen(str) ==
    IF str = <<>> THEN 0
    ELSE (IF Head(str) < 128 THEN 1 ELSE 2) + EncodedLen(Tail(str))

\* variant: only tag 1 redirects the area
IsAreaRedirectTagOne(mode) == mode = 1

\* line 87: if mode == 1 or mode == 2
IsAreaRedirect(mode) == mode = 1 \/ mode = 2

\* variant: a zero pointer is followed like any other
AreaSentinelNever(next_offset) == FALSE

\* line 89: if next_offset == 0: return ""
AreaSentinel(next_offset) == next_offset = 0

\* variant: the call does not use up a frame
FrameReused(d) == d

\* a call pushes a frame
Frame(d) == d + 1

\* the call about to run would exceed the interpreter's recursion limit
RecursionError == depth >= RecursionLimit

InitResolveLen(n) ==
    /\ pc = "get_addr"
    /\ data \in [1..n -> Bytes]
    /\ start_offset \in 0..n
    /\ offset = start_offset
    /\ depth = 0
    /\ country = <<>>
    /\ area_start = -1
    /\ zero_read = FALSE
    /\ overflow = FALSE
    /\ location_str = <<>>
    /\ IdleMerge /\ IdleSum /\ IdleScan

InitResolve == InitResolveLen(BufLen)

\* the termination property evaluates ENABLED in every state; it is
\* verified on images that are one byte shorter
InitResolveShort == InitResolveLen(ShortLen)

\* lines 111-112: whatever is raised below _get_addr is caught by the
\* innermost _get_addr frame, which returns ""; every frame above returns
\* that value unchanged
ReturnEmpty ==
    /\ location_str' = <<>>
    /\ pc' = "returned"
    /\ UNCHANGED <<data, start_offset, offset, depth, country, area_start,
                   zero_read>>

\* _get_addr cannot run its body to the next call: the recursion limit is
\* hit, data[offset] is out of range (line 99), _get_long3 has fewer than
\* three bytes (lines 101, 104), or the literal country has a U+FFFD and
\* cannot be encoded (line 109)
GetAddrRaise ==
    /\ pc = "get_addr"
    /\ \/ RecursionError
       \/ offset >= Len(data)
       \/ /\ offset < Len(data)
          /\ Byte(offset) \in {1, 2}
          /\ ~Long3Readable(offset + 1)
       \/ /\ offset < Len(data)
          /\ Byte(offset) \notin {1, 2}
          /\ ~Encodable(_get_string(offset))
    /\ overflow' = RecursionError
    /\ ReturnEmpty
    /\ UNCHANGED <<mergeVars, sumVars, scanVars>>

\* lines 100-102: mode 1, return self._get_addr(seek_offset)
GetAddrRedirect ==
    /\ pc = "get_addr"
    /\ ~RecursionError
    /\ offset < Len(data)
    /\ Byte(offset) = 1
    /\ Long3Readable(offset + 1)
    /\ offset' = _get_long3(offset + 1)
    /\ depth' = Frame(depth)
    /\ UNCHANGED <<pc, data, start_offset, country, area_start, zero_read,
                   overflow, location_str, mergeVars, sumVars, scanVars>>

\* lines 103-106: mode 2, the country is the string at seek_offset and the
\* area is resolved at offset + 4
GetAddrPartial ==
    /\ pc = "get_addr"
    /\ ~RecursionError
    /\ offset < Len(data)
    /\ Byte(offset) = 2
    /\ Long3Readable(offset + 1)
    /\ country' = _get_string(_get_long3(offset + 1))
    /\ offset' = offset + 4
    /\ area_start' = offset + 4
    /\ depth' = Frame(depth)
    /\ pc' = "get_area"
    /\ UNCHANGED <<data, start_offset, zero_read, overflow, location_str,
                   mergeVars, sumVars, scanVars>>

\* lines 107-109: any other mode, the country is the string at offset and
\* the area is resolved behind its encoded bytes and the terminator
GetAddrLiteral ==
    /\ pc = "get_addr"
    /\ ~RecursionError
    /\ offset < Len(data)
    /\ Byte(offset) \notin {1, 2}
    /\ Encodable(_get_string(offset))
    /\ country' = _get_string(offset)
    /\ offset' = offset + EncodedLen(_get_string(offset)) + 1
    /\ area_start' = offset + EncodedLen(_get_string(offset)) + 1
    /\ depth' = Frame(depth)
    /\ pc' = "get_area"
    /\ UNCHANGED <<data, start_offset, zero_read, overflow, location_str,
                   mergeVars, sumVars, scanVars>>

\* _get_area_addr raises: the recursion limit is hit, data[offset] is out
\* of range (line 86) or _get_long3 has fewer than three bytes (line 88)
GetAreaRaise ==
    /\ pc = "get_area"
    /\ \/ RecursionError
       \/ offset >= Len(data)
       \/ /\ offset < Len(data)
          /\ IsAreaRedirect(Byte(offset))
          /\ ~Long3Readable(offset + 1)
    /\ overflow' = RecursionError
    /\ ReturnEmpty
    /\ UNCHANGED <<mergeVars, sumVars, scanVars>>

\* lines 87-90: mode 1 or 2 with a non-zero pointer,
\* return self._get_area_addr(next_offset)
GetAreaRedirect ==
    /\ pc = "get_area"
    /\ ~RecursionError
    /\ offset < Len(data)
    /\ IsAreaRedirect(Byte(offset))
    /\ Long3Readable(offset + 1)
    /\ ~AreaSentinel(_get_long3(offset + 1))
    /\ offset' = _get_long3(offset + 1)
    /\ depth' = Frame(depth)
    /\ zero_read' = (zero_read \/ _get_long3(offset + 1) = 0)
    /\ UNCHANGED <<pc, data, start_offset, country, area_start, overflow,
                   location_str, mergeVars, sumVars, scanVars>>

\* line 89 and line 110: a zero pointer, the area is "" and _get_addr
\* returns f"{country} {area}"
GetAreaZero ==
    /\ pc = "get_area"
    /\ ~RecursionError
    /\ offset < Len(data)
    /\ IsAreaRedirect(Byte(offset))
    /\ Long3Readable(offset + 1)
    /\ AreaSentinel(_get_long3(offset + 1))
    /\ zero_read' = TRUE
    /\ location_str' = country \o <<SP>>
    /\ pc' = "returned"
    /\ UNCHANGED <<data, start_offset, offset, depth, country, area_start,
                   overflow, mergeVars, sumVars, scanVars>>

\* lines 91-92 and line 110: the area is the string at offset
GetAreaLiteral ==
    /\ pc = "get_area"
    /\ ~RecursionError
    /\ offset < Len(data)
    /\ ~IsAreaRedirect(Byte(offset))
    /\ location_str' = country \o <<SP>> \o _get_string(offset)
    /\ pc' = "returned"
    /\ UNCHANGED <<data, start_offset, offset, depth, country, area_start,
                   zero_read, overflow, mergeVars, sumVars, scanVars>>

NextResolve ==
    \/ GetAddrRaise \/ GetAddrRedirect \/ GetAddrPartial \/ GetAddrLiteral
    \/ GetAreaRaise \/ GetAreaRedirect \/ GetAreaZero \/ GetAreaLiteral

SpecResolve == InitResolve /\ [][NextResolve]_vars
SpecResolveShort == InitResolveShort /\ [][NextResolve]_vars


\* --------------------------------------------------- resolver properties

\* The resolution the record format prescribes, written without the code:
\* [ok, str, zero], where ok is FALSE when a read leaves the image or the
\* redirects do not end within the fuel (a cycle), and zero tells that the
\* area chain ended in a zero pointer.
Failed == [ok |-> FALSE, str |-> <<>>, zero |-> FALSE]

\* the null-terminated string at o, decoded with placeholders
RefString(o) ==
    IF o >= Len(data) \/ Find0(o) = -1 THEN Failed
    ELSE [ok |-> TRUE, str |-> GbkDecode(Slice(o, Find0(o))), zero |-> FALSE]

\* number of bytes of the null-terminated string at o
RefStringLen(o) == Find0(o) - o

RECURSIVE RefArea(_, _)
RefArea(o, fuel) ==
    IF fuel = 0 \/ o >= Len(data) THEN Failed
    ELSE IF Byte(o) \in {1, 2}
         THEN IF ~Long3Readable(o + 1) THEN Failed
              ELSE IF _get_long3(o + 1) = 0
                   THEN [ok |-> TRUE, str |-> <<>>, zero |-> TRUE]
                   ELSE RefArea(_get_long3(o + 1), fuel - 1)
         ELSE RefString(o)

RefJoin(c, a) ==
    IF c.ok /\ a.ok
    THEN [ok |-> TRUE, str |-> c.str \o <<SP>> \o a.str, zero |-> a.zero]
    ELSE Failed

RECURSIVE RefAddr(_, _)
RefAddr(o, fuel) ==
    IF fuel = 0 \/ o >= Len(data) THEN Failed
    ELSE IF Byte(o) = 1
         THEN IF ~Long3Readable(o + 1) THEN Failed
              ELSE RefAddr(_get_long3(o + 1), fuel - 1)
    ELSE IF Byte(o) = 2
         THEN IF ~Long3Readable(o + 1) THEN Failed
              ELSE RefJoin(RefString(_get_long3(o + 1)),
                           RefArea(o + 4, Len(data) + 1))
    ELSE IF ~RefString(o).ok THEN Failed
         ELSE RefJoin(RefString(o),
                      RefArea(o + RefStringLen(o) + 1, Len(data) + 1))

\* C6: location resolution always terminates, for every image and every
\* starting offset, also when country or area redirects form a cycle:
\* until it has returned the resolver can always take a step, every step
\* that does not return pushes one frame, and the stack never holds more
\* than the bounded number of frames; when the chain does not end within
\* that bound the returned string is empty.
ResolveTerminates ==
    /\ [](pc # "returned" => ENABLED NextResolve)
    /\ [][pc' # "returned" => depth' = depth + 1]_vars
    /\ [](depth <= RecursionLimit)
    /\ []((pc = "returned" /\ overflow) => location_str = <<>>)

\* an area redirect cycle has been cut off
ResolveTerminatesWitness ==
    /\ pc = "returned"
    /\ overflow
    /\ area_start # -1
    /\ depth = RecursionLimit
    /\ location_str = <<>>

\* C8: for every in-bounds, acyclic record the country reference is
\* dispatched on its tag: tag 1 gives the result of the whole record at
\* the target; tag 2 takes the country from the string at the target and
\* the area at o + 4; any other tag takes the country from the string at o
\* and the area at o + byte_length(country) + 1; the result is country,
\* one space, area.
ResolveDispatch ==
    (pc = "returned" /\ RefAddr(start_offset, Len(data) + 1).ok) =>
        location_str = RefAddr(start_offset, Len(data) + 1).str

\* C9: area resolution treats tag 1 and tag 2 alike (both follow the
\* pointer at offset + 1), and a zero pointer at any hop gives the empty
\* area and a normal finish: the record resolves to its country followed
\* by a space.
AreaRedirectZero ==
    (pc = "returned" /\ area_start # -1 /\ ~overflow) =>
        LET ref == RefArea(area_start, Len(data) + 1)
        IN  /\ ref.ok => location_str = country \o <<SP>> \o ref.str
            /\ (ref.ok /\ ref.zero) => /\ zero_read
                                       /\ location_str = country \o <<SP>>
            /\ zero_read => location_str = country \o <<SP>>

\* a tag 2 area reference with a zero pointer behind a non-empty country
AreaRedirectZeroWitness ==
    /\ pc = "returned"
    /\ zero_read
    /\ country # <<>>
    /\ Byte(area_start) = 2
    /\ location_str = country \o <<SP>>


\* ========================================================= index scan
\* The image is represented by its length and by the values the scan reads
\* from it: the two header words are chosen initially, the record pointer
\* of an entry and the outcome of the classification of its location text
\* are chosen when the entry is read.  The index starts behind the
\* 8-byte header, so that no entry shares bytes with the header words.

InitScan ==
    /\ pc = "load"
    /\ data_len \in 0..MaxDataLen
    /\ first_index \in 8..MaxDataLen
    /\ last_index \in 0..MaxDataLen
    /\ count = 0
    /\ i = 0
    /\ visited = {}
    /\ stored = {}
    /\ output = FALSE
    /\ raised = "none"
    /\ IdleMerge /\ IdleSum /\ IdleRes

\* line 63: self.count
EntryCount(first, last) == (last - first) \div 7 + 1

\* lines 57-64: __init__ reads the image and unpacks bytes 0..3 and 4..7;
\* struct.unpack raises when the image has fewer than 8 bytes
LoadHeader ==
    /\ pc = "load"
    /\ IF data_len < 8
       THEN /\ pc' = "aborted"
            /\ raised' = "load"
            /\ UNCHANGED count
       ELSE /\ pc' = "scan"
            /\ count' = EntryCount(first_index, last_index)
            /\ UNCHANGED raised
    /\ UNCHANGED <<data_len, first_index, last_index, i, visited, stored,
                   output, mergeVars, sumVars, resVars>>

\* line 150
IdxOffset(k) == first_index + k * 7

\* lines 151-153: the reads of start_ip, record_offset and end_ip all have
\* their bytes
EntryReadable(k, record_offset) ==
    /\ IdxOffset(k) + 4 <= data_len
    /\ IdxOffset(k) + 4 + 3 <= data_len
    /\ record_offset + 4 <= data_len

\* lines 146-177, one iteration whose reads succeed: _get_addr returns a
\* string (it never raises) and the range is appended when an operator and
\* a province are found in it
ScanEntry ==
    /\ pc = "scan"
    /\ i < count
    /\ \E record_offset \in 0..MaxDataLen, classified \in BOOLEAN :
          /\ EntryReadable(i, record_offset)
          /\ stored' = IF classified THEN stored \cup {i} ELSE stored
    /\ visited' = visited \cup {i}
    /\ i' = i + 1
    /\ UNCHANGED <<pc, data_len, first_index, last_index, count, output,
                   raised, mergeVars, sumVars, resVars>>

\* lines 151-153, one iteration in which struct.unpack raises: nothing in
\* run catches it
ScanEntryRaise ==
    /\ pc = "scan"
    /\ i < count
    /\ \E record_offset \in 0..MaxDataLen : ~EntryReadable(i, record_offset)
    /\ visited' = visited \cup {i}
    /\ pc' = "aborted"
    /\ raised' = "scan"
    /\ UNCHANGED <<data_len, first_index, last_index, count, i, stored,
                   output, mergeVars, sumVars, resVars>>

\* line 146: range(self.count) is exhausted (at once when count <= 0)
ScanEnd ==
    /\ pc = "scan"
    /\ i >= count
    /\ pc' = "write"
    /\ UNCHANGED <<scanVars, mergeVars, sumVars, resVars>>

\* lines 179-226: the output file is opened and written
WriteOutput ==
    /\ pc = "write"
    /\ output' = TRUE
    /\ pc' = "done"
    /\ UNCHANGED <<data_len, first_index, last_index, count, i, visited,
                   stored, raised, mergeVars, sumVars, resVars>>

NextScan == LoadHeader \/ ScanEntry \/ ScanEntryRaise \/ ScanEnd \/ WriteOutput
SpecScan == InitScan /\ [][NextScan]_vars

\* ------------------------------------------------------ scan properties

\* C5: a failure while processing one index entry (an out-of-bounds entry
\* offset, an out-of-bounds record pointer, a failure inside location
\* resolution) never aborts the scan: every index in [0, entry_count) is
\* visited and a failing entry is only skipped.
ScanNeverAborts ==
    /\ raised # "scan"
    /\ (pc \in {"write", "done"} => \A k \in 0..(count - 1) : k \in visited)

\* C7: a malformed header (first_index_offset or last_index_offset outside
\* the buffer, or a non-positive entry_count) is fatal: the load aborts
\* with an error, no scan is started and no output is produced.
MalformedHeader ==
    \/ data_len < 8
    \/ first_index >= data_len
    \/ last_index >= data_len
    \/ EntryCount(first_index, last_index) <= 0

MalformedHeaderIsFatal ==
    (MalformedHeader /\ pc # "load") =>
        /\ pc = "aborted"
        /\ raised = "load"
        /\ visited = {}
        /\ ~output

====
